---- MODULE Spec2Model ----
(***************************************************************************)
(* Verification model of the packed label primitives of the routing        *)
(* framework:                                                              *)
(*   - BasicLabelSet::LabelMask / DistanceLabel      (BasicLabelSet.h)     *)
(*   - StampedDistanceLabelContainer                 (Stamped...Container.h)*)
(*   - BasicLabelSet::ParentVertex / ParentEdge      (BasicLabelSet.h)     *)
(*   - SystemOptimum                                 (SystemOptimum.h)     *)
(*   - ConvertGraph                                  (ConvertGraph.cpp)    *)
(* Indices are 0-based as in the source.                                   *)
(***************************************************************************)
EXTENDS Integers, FiniteSets, Sequences, TLC

\* ------------------------------------------------------------------ bounds
\* Number of vertices of the container (constructor argument numVertices).
NumVertices == 2
\* Template argument numSources: number of simultaneous searches.
K == 2
\* Largest finite distance value drawn as an input.
MaxDist == 1
\* Width in bits of the signed clock / timestamp integers of the model.
ClockBits == 3

\* --------------------------------------------------------------- constants
INT_MAX == 2147483647
\* A plausible slip: the largest int itself serves as infinity.
INFTY_IntMax == INT_MAX

INFTY == INT_MAX \div 2

Vertices == 0 .. (NumVertices - 1)
Comps == 0 .. (K - 1)
Vals == (0 .. MaxDist) \cup {INFTY}
Labels == [Comps -> Vals]

MaxClock == (2 ^ (ClockBits - 1)) - 1
MinClock == 0 - (2 ^ (ClockBits - 1))

Passes == {"fwd", "bwd"}

VARIABLES
  \* StampedDistanceLabelContainer fields
  distanceLabels, timestamps, clock,
  \* observation of the sequential driver: last call and the value get returned
  op, ret,
  \* history: touched[v] - operator[](v) ran since the most recent init();
  \*          lastStored[v] - label last stored through operator[](v) since then
  touched, lastStored,
  \* two DistanceLabel objects a, b and the results of the last label operation:
  \* a0 - a before the operation, lop - the operation, mask / flag - the
  \* LabelMask returned by operator< and its conversion to bool
  a, b, a0, lop, mask, flag,
  \* per pass (thread): position, vertex argument, loop index i, value loaded
  \* from the shared cell, label operand of min, label returned by get
  ppc, pv, pidx, ptmp, pL, pret,
  \* per pass: pfresh - the get in progress saw timestamps[v] == clock;
  \* pstale (history) - it copied a component not written since the most
  \* recent init()
  pfresh, pstale,
  \* history of the current generation: cleared[v] - a lazy clear of v has
  \* begun; fresh[v][i] - component i of v has been written; writers - the
  \* passes that called operator[]
  cleared, fresh, writers,
  \* results of the further label operations: key - getKey(); sum - a + arg;
  \* arg - the int argument of the last operation; ovf - an int addition of
  \* the last operation left the range of int
  key, sum, arg, ovf,
  \* a parent label (ParentVertex with ParentEdge): its two arrays; parOp -
  \* the last call, parPrev - the call before it; vertices0 / edges0 - the
  \* arrays before the last call, vertices1 / edges1 - before the call before
  vertices, edges, parOp, parPrev, vertices0, edges0, vertices1, edges1,
  \* SystemOptimum: soFn - the travel cost function wrapped and the build's
  \* floating-point contraction, soE - the first edge, soX - the eight flows,
  \* soOut - the eight weights returned by getEdgeWeights(soE, soX), soW - the
  \* lane i and the weight returned by the last getEdgeWeight(soE + i,
  \* soX[i]), soOp - the last call
  soFn, soE, soX, soOut, soW, soOp,
  \* ConvertGraph: cgArgs - the command line, cgpc - position in main,
  \* cgGraph - the graph held, cgMsg - the error message printed, cgExit -
  \* the exit status, cgOut - what was written
  cgArgs, cgpc, cgGraph, cgMsg, cgExit, cgOut

cvars == <<distanceLabels, timestamps, clock>>
seqvars == <<distanceLabels, timestamps, clock, op, ret, touched, lastStored>>
labvars == <<a, b, a0, lop, mask, flag>>
passvars == <<ppc, pv, pidx, ptmp, pL, pret>>
parvars == <<pfresh, pstale, cleared, fresh, writers>>
lab2vars == <<key, sum, arg, ovf>>
parentvars == <<vertices, edges, parOp, parPrev, vertices0, edges0, vertices1, edges1>>
sovars == <<soFn, soE, soX, soOut, soW, soOp>>
cgvars == <<cgArgs, cgpc, cgGraph, cgMsg, cgExit, cgOut>>
extvars == <<lab2vars, parentvars, sovars, cgvars>>
vars == <<distanceLabels, timestamps, clock, op, ret, touched, lastStored,
          a, b, a0, lop, mask, flag, ppc, pv, pidx, ptmp, pL, pret,
          pfresh, pstale, cleared, fresh, writers,
          key, sum, arg, ovf,
          vertices, edges, parOp, parPrev, vertices0, edges0, vertices1, edges1,
          soFn, soE, soX, soOut, soW, soOp,
          cgArgs, cgpc, cgGraph, cgMsg, cgExit, cgOut>>

\* ------------------------------------------------- BasicLabelSet.h operators

\* DistanceLabel(const int val): all k values set to val.
Broadcast(val) == [i \in Comps |-> val]

\* Placeholder for "no label": no get has returned / nothing stored yet.
NoLabel == Broadcast(0 - 1)

\* std::min(x, y) as the library computes it: (y < x) ? y : x.
StdMin(x, y) == IF y < x THEN y ELSE x

\* A plausible slip: the operand is stored whether or not it is smaller.
LabelMin_Assign(self, other) == [i \in Comps |-> other[i]]

\* DistanceLabel::min: values[i] = std::min(values[i], other.values[i]).
LabelMin(self, other) == [i \in Comps |-> StdMin(self[i], other[i])]

\* A plausible slip: <= in place of <.
LabelLess_Leq(lhs, rhs) == [i \in Comps |-> lhs[i] <= rhs[i]]

\* operator<(lhs, rhs): mask[i] = lhs.values[i] < rhs.values[i].
LabelLess(lhs, rhs) == [i \in Comps |-> lhs[i] < rhs[i]]

\* LabelMask::operator bool: res = isMarked[0]; for i in 1..K-1: res |= isMarked[i].
RECURSIVE MaskOrFrom(_, _, _)
MaskOrFrom(m, i, res) == IF i < K THEN MaskOrFrom(m, i + 1, res \/ m[i]) ELSE res
MaskToBool(m) == MaskOrFrom(m, 1, m[0])

\* A plausible slip: the first value is returned without looking further.
GetKey_First(l) == l[0]

\* getKey: min = values[0]; for i in 1..K-1: min = std::min(min, values[i]).
RECURSIVE KeyFrom(_, _, _)
KeyFrom(l, i, min) == IF i < K THEN KeyFrom(l, i + 1, StdMin(min, l[i])) ELSE min
GetKey(l) == KeyFrom(l, 1, l[0])

\* int addition. A sum outside the range of int is a signed overflow
\* (undefined): Overflows marks it, and AddInt then stands for the value with
\* the two's complement wrap.
INT_MIN == (0 - INT_MAX) - 1
Overflows(x, y) ==
  \/ (y > 0 /\ x > INT_MAX - y)
  \/ (y < 0 /\ x < INT_MIN - y)
AddInt(x, y) ==
  IF y > 0 /\ x > INT_MAX - y
    THEN INT_MIN + ((x - (INT_MAX - y)) - 1)
    ELSE IF y < 0 /\ x < INT_MIN - y
           THEN INT_MAX - (((INT_MIN - y) - x) - 1)
           ELSE x + y

\* A plausible slip: every component is computed from values[0].
LabelPlus_First(l, rhs) == [i \in Comps |-> AddInt(l[0], rhs)]

\* operator+(rhs): sum[i] = values[i] + rhs.
LabelPlus(l, rhs) == [i \in Comps |-> AddInt(l[i], rhs)]
PlusOverflows(l, rhs) == \E i \in Comps : Overflows(l[i], rhs)

\* A plausible slip: the flags are filled with true.
MaskSingle_FillTrue(i) == [[j \in Comps |-> TRUE] EXCEPT ![i] = TRUE]

\* LabelMask(i): fill isMarked with false; isMarked[i] = true.
MaskSingle(i) == [[j \in Comps |-> FALSE] EXCEPT ![i] = TRUE]

\* ------------------------------------- StampedDistanceLabelContainer.h

\* get(v): timestamps[v] == clock ? distanceLabels[v] : INFTY.
ContainerGet(v) ==
  IF timestamps[v] = clock THEN distanceLabels[v] ELSE Broadcast(INFTY)

\* A plausible slip: the label is cleared on every access.
NeedsClear_Always(v) == TRUE

\* The test of operator[](v): timestamps[v] != clock.
NeedsClear(v) == timestamps[v] # clock

\* The lazy clear of operator[](v): the container fields after the call.
IndexLabels(v) ==
  IF NeedsClear(v)
    THEN [distanceLabels EXCEPT ![v] = Broadcast(INFTY)]
    ELSE distanceLabels
\* A plausible slip: the lazy clear does not stamp the vertex.
IndexStamps_NoStamp(v) == timestamps

IndexStamps(v) ==
  IF NeedsClear(v) THEN [timestamps EXCEPT ![v] = clock] ELSE timestamps

\* Constructor: distanceLabels(numVertices) holds labels nobody has written
\* (DistanceLabel() = default: zero or indeterminate, depending on the
\* storage cell type), so any value may be stored; timestamps filled with 0,
\* clock(0).
Construct ==
  /\ distanceLabels \in [Vertices -> Labels]
  /\ timestamps = [v \in Vertices |-> 0]
  /\ clock = 0

\* Values of the variable groups a specification does not use.
SeqUnused ==
  /\ distanceLabels = [v \in Vertices |-> NoLabel]
  /\ timestamps = [v \in Vertices |-> 0]
  /\ clock = 0
  /\ op = [name |-> "unused", v |-> 0]
  /\ ret = NoLabel
  /\ touched = [v \in Vertices |-> FALSE]
  /\ lastStored = [v \in Vertices |-> NoLabel]
LabUnused ==
  /\ a = NoLabel
  /\ b = NoLabel
  /\ a0 = NoLabel
  /\ lop = "unused"
  /\ mask = [i \in Comps |-> FALSE]
  /\ flag = FALSE
PassUnused ==
  /\ ppc = [p \in Passes |-> "unused"]
  /\ pv = [p \in Passes |-> 0]
  /\ pidx = [p \in Passes |-> 0]
  /\ ptmp = [p \in Passes |-> 0]
  /\ pL = [p \in Passes |-> NoLabel]
  /\ pret = [p \in Passes |-> NoLabel]
ParUnused ==
  /\ pfresh = [p \in Passes |-> FALSE]
  /\ pstale = [p \in Passes |-> FALSE]
  /\ cleared = [v \in Vertices |-> FALSE]
  /\ fresh = [v \in Vertices |-> [i \in Comps |-> FALSE]]
  /\ writers = {}
Lab2Unused ==
  /\ key = 0
  /\ sum = NoLabel
  /\ arg = 0
  /\ ovf = FALSE
NoParOp == [name |-> "none", id |-> 0, mask |-> [i \in Comps |-> FALSE]]
ParentUnused ==
  /\ vertices = [i \in Comps |-> 0]
  /\ edges = [i \in Comps |-> 0]
  /\ parOp = NoParOp
  /\ parPrev = NoParOp
  /\ vertices0 = [i \in Comps |-> 0]
  /\ edges0 = [i \in Comps |-> 0]
  /\ vertices1 = [i \in Comps |-> 0]
  /\ edges1 = [i \in Comps |-> 0]
SoUnused ==
  /\ soFn = "none"
  /\ soE = 0
  /\ soX = <<>>
  /\ soOut = <<>>
  /\ soW = [lane |-> 0 - 1, w |-> 0]
  /\ soOp = "none"
CgUnused ==
  /\ cgArgs = <<>>
  /\ cgpc = "none"
  /\ cgGraph = [proc |-> "none", scc |-> FALSE]
  /\ cgMsg = "none"
  /\ cgExit = "none"
  /\ cgOut = "none"
ExtUnused ==
  /\ Lab2Unused
  /\ ParentUnused
  /\ SoUnused
  /\ CgUnused

Init ==
  /\ Construct
  /\ op = [name |-> "construct", v |-> 0]
  /\ ret = NoLabel
  /\ touched = [v \in Vertices |-> FALSE]
  /\ lastStored = [v \in Vertices |-> NoLabel]
  /\ LabUnused
  /\ PassUnused
  /\ ParUnused
  /\ ExtUnused

\* The overflow fallback of init(): fill timestamps with 0, clock = 1.
ClockReset ==
  /\ timestamps' = [v \in Vertices |-> 0]
  /\ clock' = 1

\* A plausible slip: the clock is not advanced.
ClockAdvance_NoIncrement == UNCHANGED <<clock, timestamps>>

\* ++clock; if (clock < 0) { fill; clock = 1; }
\* At clock == MaxClock the increment is a signed overflow (undefined): a build
\* either wraps and sees the negative clock (g++ -O2, init() out of line), or
\* drops the test because clock + 1 cannot be negative without overflow and
\* keeps the wrapped clock (g++ -O2, init() inlined into a loop).
ClockAdvance ==
  IF clock = MaxClock
    THEN \/ ClockReset
         \/ /\ clock' = MinClock
            /\ UNCHANGED timestamps
    ELSE IF clock + 1 < 0
           THEN ClockReset
           ELSE /\ clock' = clock + 1
                /\ UNCHANGED timestamps

init ==
  /\ ClockAdvance
  /\ UNCHANGED distanceLabels
  /\ op' = [name |-> "init", v |-> 0]
  /\ ret' = NoLabel
  /\ touched' = [v \in Vertices |-> FALSE]
  /\ lastStored' = [v \in Vertices |-> NoLabel]
  /\ UNCHANGED <<labvars, passvars, parvars, extvars>>

\* operator[](v) with the returned reference left unused.
Index(v) ==
  /\ distanceLabels' = IndexLabels(v)
  /\ timestamps' = IndexStamps(v)
  /\ UNCHANGED clock
  /\ op' = [name |-> "index", v |-> v]
  /\ ret' = NoLabel
  /\ touched' = [touched EXCEPT ![v] = TRUE]
  /\ UNCHANGED lastStored
  /\ UNCHANGED <<labvars, passvars, parvars, extvars>>

\* container[v] = L: operator[](v), then the caller stores L through the reference.
Store(v, L) ==
  /\ distanceLabels' = [IndexLabels(v) EXCEPT ![v] = L]
  /\ timestamps' = IndexStamps(v)
  /\ UNCHANGED clock
  /\ op' = [name |-> "store", v |-> v]
  /\ ret' = NoLabel
  /\ touched' = [touched EXCEPT ![v] = TRUE]
  /\ lastStored' = [lastStored EXCEPT ![v] = L]
  /\ UNCHANGED <<labvars, passvars, parvars, extvars>>

\* container[v].min(L): operator[](v), then the packed minimum (relaxation).
Relax(v, L) ==
  /\ distanceLabels' = [IndexLabels(v) EXCEPT ![v] = LabelMin(IndexLabels(v)[v], L)]
  /\ timestamps' = IndexStamps(v)
  /\ UNCHANGED clock
  /\ op' = [name |-> "min", v |-> v]
  /\ ret' = NoLabel
  /\ touched' = [touched EXCEPT ![v] = TRUE]
  /\ lastStored' = [lastStored EXCEPT ![v] = LabelMin(IndexLabels(v)[v], L)]
  /\ UNCHANGED <<labvars, passvars, parvars, extvars>>

\* A plausible slip: get performs the lazy clear like operator[] does.
Get_LazyClears(v) ==
  /\ ret' = ContainerGet(v)
  /\ op' = [name |-> "get", v |-> v]
  /\ distanceLabels' = IndexLabels(v)
  /\ timestamps' = IndexStamps(v)
  /\ UNCHANGED <<clock, touched, lastStored>>
  /\ UNCHANGED <<labvars, passvars, parvars, extvars>>

\* get(v) const.
Get(v) ==
  /\ ret' = ContainerGet(v)
  /\ op' = [name |-> "get", v |-> v]
  /\ UNCHANGED <<distanceLabels, timestamps, clock, touched, lastStored>>
  /\ UNCHANGED <<labvars, passvars, parvars, extvars>>

Next ==
  \/ init
  \/ \E v \in Vertices : Index(v)
  \/ \E v \in Vertices, L \in Labels : Store(v, L)
  \/ \E v \in Vertices, L \in Labels : Relax(v, L)
  \/ \E v \in Vertices : Get(v)

Spec == Init /\ [][Next]_vars

\* ------------------------------------------- label operations (SpecLabel)
\* Two labels a and b drawn from all labels; the actions apply the
\* DistanceLabel operations to them.
LabelInit ==
  /\ a \in Labels
  /\ b \in Labels
  /\ a0 = a
  /\ lop = "none"
  /\ mask = [i \in Comps |-> FALSE]
  /\ flag = FALSE
  /\ Lab2Unused
  /\ SeqUnused
  /\ PassUnused
  /\ ParUnused
  /\ ParentUnused
  /\ SoUnused
  /\ CgUnused

\* a.min(b)
Min ==
  /\ a' = LabelMin(a, b)
  /\ a0' = a
  /\ lop' = "min"
  /\ UNCHANGED <<b, mask, flag>>
  /\ UNCHANGED <<seqvars, passvars, parvars, extvars>>

\* m = (a < b); bool(m)
Less ==
  /\ mask' = LabelLess(a, b)
  /\ flag' = MaskToBool(LabelLess(a, b))
  /\ a0' = a
  /\ lop' = "less"
  /\ UNCHANGED <<a, b>>
  /\ UNCHANGED <<seqvars, passvars, parvars, extvars>>

\* The int arguments drawn for operator+.
Scalars == Vals \cup {0 - 1}

\* k = a.getKey()
Key ==
  /\ key' = GetKey(a)
  /\ a0' = a
  /\ lop' = "getKey"
  /\ UNCHANGED <<a, b, mask, flag, sum, arg, ovf>>
  /\ UNCHANGED <<seqvars, passvars, parvars, parentvars, sovars, cgvars>>

\* sum = a + s
Plus(s) ==
  /\ sum' = LabelPlus(a, s)
  /\ ovf' = PlusOverflows(a, s)
  /\ arg' = s
  /\ a0' = a
  /\ lop' = "plus"
  /\ UNCHANGED <<a, b, mask, flag, key>>
  /\ UNCHANGED <<seqvars, passvars, parvars, parentvars, sovars, cgvars>>

\* LabelMask m;  (LabelMask() = default: "Constructs an uninitialized mask";
\* the flags are zero when value-initialized and indeterminate otherwise)
MaskDefault ==
  /\ mask' \in [Comps -> BOOLEAN]
  /\ flag' = MaskToBool(mask')
  /\ a0' = a
  /\ lop' = "mask_default"
  /\ UNCHANGED <<a, b, key, sum, arg, ovf>>
  /\ UNCHANGED <<seqvars, passvars, parvars, parentvars, sovars, cgvars>>

\* LabelMask m(i)
MaskIndex(i) ==
  /\ mask' = MaskSingle(i)
  /\ flag' = MaskToBool(MaskSingle(i))
  /\ arg' = i
  /\ a0' = a
  /\ lop' = "mask_index"
  /\ UNCHANGED <<a, b, key, sum, ovf>>
  /\ UNCHANGED <<seqvars, passvars, parvars, parentvars, sovars, cgvars>>

LabelNext ==
  \/ Min
  \/ Less
  \/ Key
  \/ \E s \in Scalars : Plus(s)
  \/ MaskDefault
  \/ \E i \in Comps : MaskIndex(i)

SpecLabel == LabelInit /\ [][LabelNext]_vars

\* ---------------------------- two passes calling min() on one label (SpecMin)
\* The receiver a is shared (parallel mode: every component a relaxed atomic
\* cell); pass p calls a.min(pL[p]). One component update is a load of
\* values[i] followed by a store of std::min(loaded, other.values[i]).
MinInit ==
  /\ a \in Labels
  /\ a0 = a
  /\ b = NoLabel
  /\ lop = "unused"
  /\ mask = [i \in Comps |-> FALSE]
  /\ flag = FALSE
  /\ pL \in [Passes -> Labels]
  /\ ppc = [p \in Passes |-> "min_load"]
  /\ pidx = [p \in Passes |-> 0]
  /\ ptmp = [p \in Passes |-> 0]
  /\ pv = [p \in Passes |-> 0]
  /\ pret = [p \in Passes |-> NoLabel]
  /\ SeqUnused
  /\ ParUnused
  /\ ExtUnused

\* values[i].load()
MinLoad(p) ==
  /\ ppc[p] = "min_load"
  /\ ptmp' = [ptmp EXCEPT ![p] = a[pidx[p]]]
  /\ ppc' = [ppc EXCEPT ![p] = "min_store"]
  /\ UNCHANGED <<a, a0, b, lop, mask, flag, pv, pidx, pL, pret>>
  /\ UNCHANGED <<seqvars, parvars, extvars>>

\* A plausible slip: the operand is stored whether or not it is smaller.
MinStoredValue_Other(loaded, other) == other

\* The value one component update stores.
MinStoredValue(loaded, other) == StdMin(loaded, other)

\* values[i] = std::min(...); ++i
MinStore(p) ==
  /\ ppc[p] = "min_store"
  /\ a' = [a EXCEPT ![pidx[p]] = MinStoredValue(ptmp[p], pL[p][pidx[p]])]
  /\ pidx' = [pidx EXCEPT ![p] = pidx[p] + 1]
  /\ ppc' = [ppc EXCEPT ![p] = IF pidx[p] + 1 < K THEN "min_load" ELSE "done"]
  /\ UNCHANGED <<a0, b, lop, mask, flag, pv, ptmp, pL, pret>>
  /\ UNCHANGED <<seqvars, parvars, extvars>>

MinNext ==
  \/ \E p \in Passes : MinLoad(p)
  \/ \E p \in Passes : MinStore(p)

SpecMin == MinInit /\ [][MinNext]_vars

\* ------------------- two passes sharing one container, parallel mode (SpecPar)
\* Every access to a timestamp or to a label component is one step. A pass
\* relaxes a vertex (operator[](v) followed by min) or reads it (get(v)); the
\* driver calls init() between searches, when no pass is inside a call.

\* Number of init() calls the driver makes in this specification.
MaxParGen == 1

ParInit ==
  /\ Construct
  /\ op = [name |-> "construct", v |-> 0]
  /\ ret = NoLabel
  /\ touched = [v \in Vertices |-> FALSE]
  /\ lastStored = [v \in Vertices |-> NoLabel]
  /\ LabUnused
  /\ ppc = [p \in Passes |-> "idle"]
  /\ pv = [p \in Passes |-> 0]
  /\ pidx = [p \in Passes |-> 0]
  /\ ptmp = [p \in Passes |-> 0]
  /\ pL = [p \in Passes |-> NoLabel]
  /\ pret = [p \in Passes |-> NoLabel]
  /\ ParUnused
  /\ ExtUnused

AtRest(p) == ppc[p] \in {"idle", "got"}
PassStep == op' = [name |-> "pass", v |-> 0]
ParFrame == UNCHANGED <<ret, touched, lastStored, labvars, pL, extvars>>

\* init(), called by the driver while both passes are outside any call.
PReset ==
  /\ \A p \in Passes : AtRest(p)
  /\ clock < MaxParGen
  /\ ClockAdvance
  /\ op' = [name |-> "init", v |-> 0]
  /\ ppc' = [p \in Passes |-> "idle"]
  /\ pv' = [p \in Passes |-> 0]
  /\ pret' = [p \in Passes |-> NoLabel]
  /\ pfresh' = [p \in Passes |-> FALSE]
  /\ pstale' = [p \in Passes |-> FALSE]
  /\ cleared' = [v \in Vertices |-> FALSE]
  /\ fresh' = [v \in Vertices |-> [i \in Comps |-> FALSE]]
  /\ writers' = {}
  /\ UNCHANGED <<distanceLabels, pidx, ptmp>>
  /\ ParFrame

\* Pass p calls container[v].min(L).
PStartRelax(p, v) ==
  /\ AtRest(p)
  /\ ppc' = [ppc EXCEPT ![p] = "idx_test"]
  /\ pv' = [pv EXCEPT ![p] = v]
  /\ pret' = [pret EXCEPT ![p] = NoLabel]
  /\ pfresh' = [pfresh EXCEPT ![p] = FALSE]
  /\ pstale' = [pstale EXCEPT ![p] = FALSE]
  /\ writers' = writers \cup {p}
  /\ PassStep
  /\ UNCHANGED <<cvars, pidx, ptmp, cleared, fresh>>
  /\ ParFrame

\* Pass p calls container.get(v).
PStartGet(p, v) ==
  /\ AtRest(p)
  /\ ppc' = [ppc EXCEPT ![p] = "get_stamp"]
  /\ pv' = [pv EXCEPT ![p] = v]
  /\ pret' = [pret EXCEPT ![p] = NoLabel]
  /\ pfresh' = [pfresh EXCEPT ![p] = FALSE]
  /\ pstale' = [pstale EXCEPT ![p] = FALSE]
  /\ PassStep
  /\ UNCHANGED <<cvars, pidx, ptmp, cleared, fresh, writers>>
  /\ ParFrame

\* A plausible slip: the timestamp is published before the label is cleared.
LazyClearOrder_StampFirst == <<"idx_stamp", "idx_clear">>

\* The two parts of the lazy clear in program order:
\* distanceLabels[v] = INFTY; timestamps[v].store(clock, release).
LazyClearOrder == <<"idx_clear", "idx_stamp">>

AfterLazyClearPart(part) ==
  IF LazyClearOrder[1] = part THEN LazyClearOrder[2] ELSE "min_load"

\* operator[]: if (timestamps[v] != clock)
PIdxTest(p) ==
  /\ ppc[p] = "idx_test"
  /\ ppc' = [ppc EXCEPT ![p] = IF NeedsClear(pv[p]) THEN LazyClearOrder[1] ELSE "min_load"]
  /\ pidx' = [pidx EXCEPT ![p] = 0]
  /\ cleared' = [cleared EXCEPT ![pv[p]] = @ \/ NeedsClear(pv[p])]
  /\ PassStep
  /\ UNCHANGED <<cvars, pv, ptmp, pret, pfresh, pstale, fresh, writers>>
  /\ ParFrame

\* operator[]: distanceLabels[v] = INFTY, one component per step (std::fill).
PIdxClear(p) ==
  /\ ppc[p] = "idx_clear"
  /\ distanceLabels' = [distanceLabels EXCEPT ![pv[p]][pidx[p]] = INFTY]
  /\ fresh' = [fresh EXCEPT ![pv[p]][pidx[p]] = TRUE]
  /\ pidx' = [pidx EXCEPT ![p] = IF pidx[p] + 1 < K THEN pidx[p] + 1 ELSE 0]
  /\ ppc' = [ppc EXCEPT ![p] = IF pidx[p] + 1 < K THEN "idx_clear"
                                 ELSE AfterLazyClearPart("idx_clear")]
  /\ PassStep
  /\ UNCHANGED <<timestamps, clock, pv, ptmp, pret, pfresh, pstale, cleared, writers>>
  /\ ParFrame

\* operator[]: timestamps[v].store(clock, std::memory_order_release)
PIdxStamp(p) ==
  /\ ppc[p] = "idx_stamp"
  /\ timestamps' = [timestamps EXCEPT ![pv[p]] = clock]
  /\ ppc' = [ppc EXCEPT ![p] = AfterLazyClearPart("idx_stamp")]
  /\ PassStep
  /\ UNCHANGED <<distanceLabels, clock, pv, pidx, ptmp, pret, pfresh, pstale,
                 cleared, fresh, writers>>
  /\ ParFrame

\* min: values[i].load() on the label operator[] returned
PMinLoad(p) ==
  /\ ppc[p] = "min_load"
  /\ ptmp' = [ptmp EXCEPT ![p] = distanceLabels[pv[p]][pidx[p]]]
  /\ ppc' = [ppc EXCEPT ![p] = "min_store"]
  /\ PassStep
  /\ UNCHANGED <<cvars, pv, pidx, pret, pfresh, pstale, cleared, fresh, writers>>
  /\ ParFrame

\* min: values[i] = std::min(loaded, other.values[i]); ++i. The operand is
\* private to the pass and read once, so its component x is drawn here.
PMinStore(p, x) ==
  /\ ppc[p] = "min_store"
  /\ distanceLabels' = [distanceLabels EXCEPT ![pv[p]][pidx[p]] = MinStoredValue(ptmp[p], x)]
  /\ fresh' = [fresh EXCEPT ![pv[p]][pidx[p]] = TRUE]
  /\ pidx' = [pidx EXCEPT ![p] = IF pidx[p] + 1 < K THEN pidx[p] + 1 ELSE 0]
  /\ ppc' = [ppc EXCEPT ![p] = IF pidx[p] + 1 < K THEN "min_load" ELSE "idle"]
  /\ ptmp' = [ptmp EXCEPT ![p] = 0]
  /\ PassStep
  /\ UNCHANGED <<timestamps, clock, pv, pret, pfresh, pstale, cleared, writers>>
  /\ ParFrame

\* get: timestamps[v].load(std::memory_order_acquire) == clock ? ... : INFTY
PGetStamp(p) ==
  /\ ppc[p] = "get_stamp"
  /\ pfresh' = [pfresh EXCEPT ![p] = (timestamps[pv[p]] = clock)]
  /\ ppc' = [ppc EXCEPT ![p] = IF timestamps[pv[p]] = clock THEN "get_copy" ELSE "got"]
  /\ pret' = [pret EXCEPT ![p] = IF timestamps[pv[p]] = clock THEN NoLabel
                                   ELSE Broadcast(INFTY)]
  /\ pidx' = [pidx EXCEPT ![p] = 0]
  /\ PassStep
  /\ UNCHANGED <<cvars, pv, ptmp, pstale, cleared, fresh, writers>>
  /\ ParFrame

\* get: the copy of distanceLabels[v], one component per step (copy constructor).
PGetCopy(p) ==
  /\ ppc[p] = "get_copy"
  /\ pret' = [pret EXCEPT ![p][pidx[p]] = distanceLabels[pv[p]][pidx[p]]]
  /\ pstale' = [pstale EXCEPT ![p] = @ \/ ~fresh[pv[p]][pidx[p]]]
  /\ pidx' = [pidx EXCEPT ![p] = IF pidx[p] + 1 < K THEN pidx[p] + 1 ELSE 0]
  /\ ppc' = [ppc EXCEPT ![p] = IF pidx[p] + 1 < K THEN "get_copy" ELSE "got"]
  /\ PassStep
  /\ UNCHANGED <<cvars, pv, ptmp, pfresh, cleared, fresh, writers>>
  /\ ParFrame

ParNext ==
  \/ PReset
  \/ \E p \in Passes, v \in Vertices : PStartRelax(p, v)
  \/ \E p \in Passes, v \in Vertices : PStartGet(p, v)
  \/ \E p \in Passes : PIdxTest(p)
  \/ \E p \in Passes : PIdxClear(p)
  \/ \E p \in Passes : PIdxStamp(p)
  \/ \E p \in Passes : PMinLoad(p)
  \/ \E p \in Passes, x \in Vals : PMinStore(p, x)
  \/ \E p \in Passes : PGetStamp(p)
  \/ \E p \in Passes : PGetCopy(p)

SpecPar == ParInit /\ [][ParNext]_vars

\* ------------------------------------------- ParentVertex / ParentEdge
\* Number of edge ids drawn as arguments of setEdge.
NumEdges == 2

Edges == 0 .. (NumEdges - 1)
Masks == [Comps -> BOOLEAN]

\* setVertex(u, mask): vertices[i] = mask[i] ? u : vertices[i].
ParentVertexSet(vs, u, m) == [i \in Comps |-> IF m[i] THEN u ELSE vs[i]]

\* A plausible slip: the mask is not consulted.
ParentEdgeSet_IgnoresMask(es, e, m) == [i \in Comps |-> e]

\* setEdge(e, mask): edges[i] = mask[i] ? e : edges[i].
ParentEdgeSet(es, e, m) == [i \in Comps |-> IF m[i] THEN e ELSE es[i]]

\* A parent label has no constructor: its arrays hold whatever the storage
\* held.
ParentInit ==
  /\ vertices \in [Comps -> Vertices]
  /\ edges \in [Comps -> Edges]
  /\ parOp = NoParOp
  /\ parPrev = NoParOp
  /\ vertices0 = vertices
  /\ edges0 = edges
  /\ vertices1 = vertices
  /\ edges1 = edges
  /\ SeqUnused
  /\ LabUnused
  /\ PassUnused
  /\ ParUnused
  /\ Lab2Unused
  /\ SoUnused
  /\ CgUnused

ParentHistory ==
  /\ parPrev' = parOp
  /\ vertices0' = vertices
  /\ edges0' = edges
  /\ vertices1' = vertices0
  /\ edges1' = edges0

\* label.setVertex(u, m)
SetVertex(u, m) ==
  /\ vertices' = ParentVertexSet(vertices, u, m)
  /\ UNCHANGED edges
  /\ parOp' = [name |-> "setVertex", id |-> u, mask |-> m]
  /\ ParentHistory
  /\ UNCHANGED <<seqvars, labvars, passvars, parvars, lab2vars, sovars, cgvars>>

\* label.setEdge(e, m)
SetEdge(e, m) ==
  /\ edges' = ParentEdgeSet(edges, e, m)
  /\ UNCHANGED vertices
  /\ parOp' = [name |-> "setEdge", id |-> e, mask |-> m]
  /\ ParentHistory
  /\ UNCHANGED <<seqvars, labvars, passvars, parvars, lab2vars, sovars, cgvars>>

ParentNext ==
  \/ \E u \in Vertices, m \in Masks : SetVertex(u, m)
  \/ \E e \in Edges, m \in Masks : SetEdge(e, m)

SpecParent == ParentInit /\ [][ParentNext]_vars

\* ------------------------------------------------------- SystemOptimum
\* Largest flow drawn as an input.
MaxFlow == 3
\* Significand width in bits of the model's floating-point numbers.
MantBits == 2
\* Number of lanes of Vec8f.
VecSize == 8

Lanes == 0 .. (VecSize - 1)
Flows == {0, MaxFlow}
Slopes == {0, 2}

\* Floating-point numbers are the non-negative integers with at most MantBits
\* significant bits; every operation rounds its exact result to the nearest
\* of them, ties to even.
RECURSIVE Pow2(_)
Pow2(n) == IF n = 0 THEN 1 ELSE 2 * Pow2(n - 1)
RECURSIVE UlpFrom(_, _)
UlpFrom(r, u) == IF r < Pow2(MantBits) * u THEN u ELSE UlpFrom(r, 2 * u)
Rnd(r) ==
  LET u == UlpFrom(r, 1)
      q == r \div u
      m == r % u
  IN IF 2 * m > u \/ (2 * m = u /\ q % 2 = 1) THEN (q + 1) * u ELSE q * u
FAdd(p, q) == Rnd(p + q)
FMul(p, q) == Rnd(p * q)
\* p * q + r as the build evaluates it: contracted into one fused operation
\* with a single rounding, or as a product and a sum.
MulAdd(fused, p, q, r) == IF fused THEN Rnd(p * q + r) ELSE FAdd(FMul(p, q), r)

\* The travel cost functor: the linear cost function a * x + b with the
\* derivative a, with attributes a and b of the edge.
CoefA(fn, e) == Rnd(fn.slope + e)
CoefB(fn, e) == Rnd(5 + e)
TravelCost(fn, e, xf) == MulAdd(fn.fused, CoefA(fn, e), xf, CoefB(fn, e))
TravelCostDerivative(fn, e, xf) == CoefA(fn, e)
\* Its eight-wide evaluation: the scalar evaluation for the eight consecutive
\* edges starting at e.
TravelCostVec(fn, e, xs) == [i \in Lanes |-> TravelCost(fn, e + i, xs[i])]
TravelCostDerivativeVec(fn, e, xs) ==
  [i \in Lanes |-> TravelCostDerivative(fn, e + i, xs[i])]

\* getEdgeWeight(e, x):
\*   travelCostFunction(e, x) + x * travelCostFunction.derivative(e, x)
GetEdgeWeight(fn, e, xf) ==
  MulAdd(fn.fused, xf, TravelCostDerivative(fn, e, xf), TravelCost(fn, e, xf))

\* A plausible slip: every lane is multiplied by the flow of lane 0.
VecMulAdd_Lane0(fused, ps, qs, rs) ==
  [i \in Lanes |-> MulAdd(fused, ps[0], qs[i], rs[i])]

\* Vec8f operator* and operator+: lane by lane.
VecMulAdd(fused, ps, qs, rs) ==
  [i \in Lanes |-> MulAdd(fused, ps[i], qs[i], rs[i])]

\* getEdgeWeights(e, x): the same expression on Vec8f.
GetEdgeWeights(fn, e, xs) ==
  VecMulAdd(fn.fused, xs, TravelCostDerivativeVec(fn, e, xs),
            TravelCostVec(fn, e, xs))

NoWeight == [lane |-> 0 - 1, w |-> 0]
NoVec == [i \in Lanes |-> 0 - 1]

SoInit ==
  /\ soFn \in [slope : Slopes, fused : BOOLEAN]
  /\ soE \in Edges
  /\ soX \in [Lanes -> Flows]
  /\ soOut = NoVec
  /\ soW = NoWeight
  /\ soOp = "none"
  /\ SeqUnused
  /\ LabUnused
  /\ PassUnused
  /\ ParUnused
  /\ Lab2Unused
  /\ ParentUnused
  /\ CgUnused

\* w = objective.getEdgeWeight(soE + i, soX[i])
EdgeWeight(i) ==
  /\ soW' = [lane |-> i, w |-> GetEdgeWeight(soFn, soE + i, soX[i])]
  /\ soOp' = "getEdgeWeight"
  /\ UNCHANGED <<soFn, soE, soX, soOut>>
  /\ UNCHANGED <<seqvars, labvars, passvars, parvars, lab2vars, parentvars, cgvars>>

\* out = objective.getEdgeWeights(soE, soX)
EdgeWeights ==
  /\ soOut' = GetEdgeWeights(soFn, soE, soX)
  /\ soOp' = "getEdgeWeights"
  /\ UNCHANGED <<soFn, soE, soX, soW>>
  /\ UNCHANGED <<seqvars, labvars, passvars, parvars, lab2vars, parentvars, cgvars>>

SoNext ==
  \/ \E i \in Lanes : EdgeWeight(i)
  \/ EdgeWeights

SpecSO == SoInit /\ [][SoNext]_vars

\* -------------------------------------------------------- ConvertGraph
\* The values the usage text lists for -s and -d.
UsageSourceFormats == {"binary", "default", "dimacs", "visum", "xatf"}
UsageDestinationFormats == {"binary", "default", "dimacs"}
\* "other" stands for every other string, the empty one included.
SourceFormats == UsageSourceFormats \cup {"other"}
DestinationFormats == UsageDestinationFormats \cup {"other"}

\* The command line and the files it names: parseOk - clp.parse does not
\* throw; help, scc, o - the options set; s, d - the formats; ap - the
\* analysis period; inGood / outGood - the binary input / output file opens.
CommandLines ==
  [parseOk : BOOLEAN, help : BOOLEAN, s : SourceFormats,
   d : DestinationFormats, ap : {0, 24}, inGood : BOOLEAN, scc : BOOLEAN,
   o : BOOLEAN, outGood : BOOLEAN]

NoGraph == [proc |-> "none", scc |-> FALSE]

\* importGraph: the import procedure picked for -s, or the message of the
\* exception thrown.
ImportProcedure(args) ==
  IF args.s = "binary"
    THEN IF ~args.inGood
           THEN [proc |-> "none", msg |-> "file not found"]
           ELSE [proc |-> "binary", msg |-> "none"]
    ELSE IF args.s = "visum"
           THEN IF args.ap <= 0
                  THEN [proc |-> "none",
                        msg |-> "analysis period not strictly positive"]
                  ELSE [proc |-> "visum", msg |-> "none"]
           ELSE IF args.s = "xatf"
                  THEN [proc |-> "xatf", msg |-> "none"]
                  ELSE [proc |-> "none",
                        msg |-> "unrecognized input file format"]

\* exportGraph: the export procedure picked for -d, or the message of the
\* exception thrown.
ExportProcedure(args) ==
  IF args.d = "binary"
    THEN IF ~args.outGood
           THEN [proc |-> "none", msg |-> "file cannot be opened"]
           ELSE [proc |-> "binary", msg |-> "none"]
    ELSE IF args.d = "default"
           THEN [proc |-> "default", msg |-> "none"]
           ELSE [proc |-> "none", msg |-> "unrecognized output file format"]

CgInit ==
  /\ cgArgs \in CommandLines
  /\ cgpc = "parse"
  /\ cgGraph = NoGraph
  /\ cgMsg = "none"
  /\ cgExit = "none"
  /\ cgOut = "none"
  /\ SeqUnused
  /\ LabUnused
  /\ PassUnused
  /\ ParUnused
  /\ Lab2Unused
  /\ ParentUnused
  /\ SoUnused

CgFrame ==
  UNCHANGED <<seqvars, labvars, passvars, parvars, lab2vars, parentvars, sovars>>

\* catch (std::invalid_argument& e): printErrorMessage, return EXIT_FAILURE.
CgFail(msg) ==
  /\ cgMsg' = msg
  /\ cgExit' = "EXIT_FAILURE"
  /\ cgpc' = "exit"

\* main: clp.parse(argc, argv), then the -help test.
CgParse ==
  /\ cgpc = "parse"
  /\ IF ~cgArgs.parseOk
       THEN /\ CgFail("invalid command line")
            /\ UNCHANGED cgOut
       ELSE IF cgArgs.help
              THEN /\ cgOut' = "usage"
                   /\ cgExit' = "EXIT_SUCCESS"
                   /\ cgpc' = "exit"
                   /\ UNCHANGED cgMsg
              ELSE /\ cgpc' = "import"
                   /\ UNCHANGED <<cgMsg, cgExit, cgOut>>
  /\ UNCHANGED <<cgArgs, cgGraph>>
  /\ CgFrame

\* main: GraphT graph = importGraph(clp).
CgImport ==
  /\ cgpc = "import"
  /\ LET r == ImportProcedure(cgArgs)
     IN IF r.msg # "none"
          THEN /\ CgFail(r.msg)
               /\ UNCHANGED cgGraph
          ELSE /\ cgGraph' = [proc |-> r.proc, scc |-> FALSE]
               /\ cgpc' = "scc"
               /\ UNCHANGED <<cgMsg, cgExit>>
  /\ UNCHANGED <<cgArgs, cgOut>>
  /\ CgFrame

\* main: if (clp.isSet("scc")) extract the largest SCC.
CgScc ==
  /\ cgpc = "scc"
  /\ cgGraph' = [cgGraph EXCEPT !.scc = cgArgs.scc]
  /\ cgpc' = "export"
  /\ UNCHANGED <<cgArgs, cgMsg, cgExit, cgOut>>
  /\ CgFrame

\* main: if (clp.isSet("o")) exportGraph(clp, graph); return EXIT_SUCCESS.
CgExport ==
  /\ cgpc = "export"
  /\ IF ~cgArgs.o
       THEN /\ cgExit' = "EXIT_SUCCESS"
            /\ cgpc' = "exit"
            /\ UNCHANGED <<cgMsg, cgOut>>
       ELSE LET r == ExportProcedure(cgArgs)
            IN IF r.msg # "none"
                 THEN /\ CgFail(r.msg)
                      /\ UNCHANGED cgOut
                 ELSE /\ cgOut' = r.proc
                      /\ cgExit' = "EXIT_SUCCESS"
                      /\ cgpc' = "exit"
                      /\ UNCHANGED cgMsg
  /\ UNCHANGED <<cgArgs, cgGraph>>
  /\ CgFrame

CgNext ==
  \/ CgParse
  \/ CgImport
  \/ CgScc
  \/ CgExport

SpecConvert == CgInit /\ [][CgNext]_vars

\* -------------------------------------------------------------- properties
InftyLabel == Broadcast(INFTY)

\* C1: in every reachable state, construction included, timestamps[v] = clock
\* exactly when operator[](v) has run since the most recent init().
C1_StampIffTouched ==
  \A v \in Vertices : (timestamps[v] = clock) <=> touched[v]

\* C2: immediately after any init(), get(v) is INFTY in every component for
\* every vertex v, although the stored labels were not written.
C2_GetAfterInitIsInfty ==
  (op.name = "init") => \A v \in Vertices : ContainerGet(v) = InftyLabel

\* C2 witness: a later init() after a write; the finite label is still stored.
C2_Witness ==
  /\ op.name = "init"
  /\ clock >= 2
  /\ \E v \in Vertices :
       /\ timestamps[v] = clock - 1
       /\ distanceLabels[v] # InftyLabel
       /\ ContainerGet(v) = InftyLabel

\* C3: once a label L has been stored through operator[](v), every get(v)
\* before the next init() returns L, and get(u) of a vertex u not touched in
\* this generation returns INFTY.
C3_StoredThenGet ==
  (op.name = "get") =>
     /\ (lastStored[op.v] # NoLabel => ret = lastStored[op.v])
     /\ ((\E u \in Vertices : lastStored[u] # NoLabel) /\ ~touched[op.v]
           => ret = InftyLabel)

\* C7: an init() made at the largest clock value sets every timestamp to 0 and
\* the clock to 1, so that no vertex is valid afterwards.
C7_OverflowResets ==
  [][ (op'.name = "init" /\ clock = MaxClock)
        => /\ clock' = 1
           /\ \A v \in Vertices : timestamps'[v] = 0 /\ timestamps'[v] # clock' ]_vars

\* C8: get(v) leaves clock, timestamps and stored labels unchanged and returns
\* the stored label if timestamps[v] = clock and INFTY otherwise.
C8_GetIsPureRead ==
  [][ (op'.name = "get")
        => /\ distanceLabels' = distanceLabels
           /\ timestamps' = timestamps
           /\ clock' = clock
           /\ ret' = IF timestamps[op'.v] = clock
                       THEN distanceLabels[op'.v]
                       ELSE InftyLabel ]_vars

\* C8 witness: a get of a stale vertex returned INFTY and the stale finite
\* label and the old timestamp are still in place.
C8_Witness ==
  /\ op.name = "get"
  /\ timestamps[op.v] # clock
  /\ ret = InftyLabel
  /\ distanceLabels[op.v] # InftyLabel

\* The smaller of two values, and of three.
Smaller(x, y) == IF x <= y THEN x ELSE y
Smallest(x, y, z) == Smaller(x, Smaller(y, z))
BothDone == \A p \in Passes : ppc[p] = "done"

\* C5: after two concurrent min() calls on the same label have completed,
\* each component equals the minimum of its original value and the
\* corresponding components of both operands.
C5_BothUpdatesApplied ==
  BothDone => \A i \in Comps : a[i] = Smallest(a0[i], pL["fwd"][i], pL["bwd"][i])

\* C5 as amended: after both calls have completed, each component equals the
\* minimum of its original value and the corresponding component of at least
\* one of the two operands (the other update may be lost, even a smaller one).
C5_OneUpdateApplied ==
  BothDone => \A i \in Comps : \E p \in Passes : a[i] = Smaller(a0[i], pL[p][i])

\* C5 witness: both calls completed and a smaller update was lost.
C5_Witness ==
  /\ BothDone
  /\ \E i \in Comps : a[i] > Smallest(a0[i], pL["fwd"][i], pL["bwd"][i])

\* C9: after a.min(b) every component of a is the smaller of the original
\* a[i] and b[i], b is unchanged, and a second a.min(b) directly afterwards
\* leaves a unchanged.
C9_MinIsSmallerAndIdempotent ==
  [][ (lop' = "min")
        => /\ \A i \in Comps : a'[i] = Smaller(a[i], b[i])
           /\ b' = b
           /\ (lop = "min" => a' = a) ]_vars

\* C9 witness: a min that lowered one component and kept another.
C9_Witness ==
  /\ lop = "min"
  /\ \E i \in Comps : a[i] < a0[i]
  /\ \E i \in Comps : a[i] = a0[i] /\ a[i] < b[i]

\* C10: component i of (a < b) is true iff a[i] is strictly less than b[i],
\* and the mask converts to true iff at least one component is true.
C10_LessMask ==
  (lop = "less") =>
     /\ \A i \in Comps : mask[i] <=> (a[i] < b[i])
     /\ flag <=> (\E i \in Comps : mask[i])

\* C10 witness: a comparison with one component strictly less and one equal.
C10_Witness ==
  /\ lop = "less"
  /\ flag
  /\ \E i \in Comps : mask[i]
  /\ \E i \in Comps : a[i] = b[i] /\ ~mask[i]

\* C4: a get(v) that observed timestamps[v] == clock while another pass runs
\* the lazy clear of operator[](v) in the same generation returns no component
\* left over from before the generation: each is INFTY or a value written in
\* the current generation.
C4_FreshStampFreshValues ==
  \A p \in Passes :
     (ppc[p] \in {"get_copy", "got"} /\ pfresh[p] /\ cleared[pv[p]]) => ~pstale[p]

\* C4 witness: a get of v completed with a fresh timestamp while the other
\* pass, which lazily cleared v in this generation, is still relaxing v.
C4_Witness ==
  \E p \in Passes, q \in Passes :
     /\ p # q
     /\ ppc[p] = "got" /\ pfresh[p] /\ cleared[pv[p]]
     /\ pv[q] = pv[p] /\ ppc[q] \in {"min_load", "min_store"}
     /\ \E i \in Comps : pret[p][i] = INFTY

\* The label get(v) reports never increases in any component.
ViewNeverIncreases ==
  \A v \in Vertices : \A i \in Comps : ContainerGet(v)'[i] <= ContainerGet(v)[i]

\* C6: with two passes relaxing through operator[](v) and min(), within one
\* generation no component of v's label ever increases; a finite value is
\* never replaced by INFTY through the other pass's lazy clear.
C6_TwoWritersNeverIncrease ==
  [][ (op'.name # "init") => ViewNeverIncreases ]_vars

\* C6 as amended: while at most one of the two passes has relaxed through
\* operator[](v) and min() in the generation (the other only reads through
\* get), no component of the label get(v) reports ever increases.
C6_SingleWriterNeverIncreases ==
  [][ (op'.name # "init" /\ Cardinality(writers') <= 1) => ViewNeverIncreases ]_vars

\* C6 witness: one pass alone has relaxed v to a finite value after a lazy
\* clear, and the other pass has read that value through get.
C6_Witness ==
  \E p \in Passes, q \in Passes :
     /\ writers = {p} /\ q # p
     /\ cleared[pv[q]]
     /\ ppc[q] = "got" /\ pfresh[q]
     /\ \E i \in Comps : pret[q][i] < INFTY /\ pret[q][i] = distanceLabels[pv[q]][i]

\* C11: getKey() returns the minimum of the K component values and does not
\* modify the label.
C11_KeyIsMinimum ==
  (lop = "getKey") =>
     /\ \A i \in Comps : key <= a0[i]
     /\ \E i \in Comps : key = a0[i]
     /\ a = a0

\* C11 witness: the minimum is not the first component.
C11_Witness ==
  /\ lop = "getKey"
  /\ key < a[0]

\* C12: a + s is a new label with components a[i] + s, a itself is unchanged,
\* and DistanceLabel(c) + s equals DistanceLabel(c + s).
C12_PlusIsElementwise ==
  (lop = "plus" /\ ~ovf) =>
     /\ a = a0
     /\ \A i \in Comps : sum[i] = a0[i] + arg
     /\ \A c \in Vals : (a0 = Broadcast(c)) => (sum = Broadcast(c + arg))

\* C12 witness: a scalar added to a label with two different components, and
\* to a broadcast label.
C12_Witness ==
  /\ lop = "plus"
  /\ arg > 0
  /\ \/ \E i \in Comps, j \in Comps : a[i] # a[j] /\ sum[i] # sum[j]
     \/ \E c \in Vals : a = Broadcast(c) /\ sum = Broadcast(c + arg)

\* C14: a LabelMask constructed without arguments has all K components false
\* and converts to false; LabelMask(i) has component i true and every other
\* component false.
C14_DefaultMaskIsEmpty ==
  /\ (lop = "mask_default") => ((\A i \in Comps : ~mask[i]) /\ ~flag)
  /\ (lop = "mask_index") => \A j \in Comps : mask[j] <=> (j = arg)

\* C14 as amended: LabelMask(i) has component i true and every other
\* component false (and converts to true); a mask constructed without
\* arguments is uninitialized and promises nothing.
C14_IndexMaskIsSingleton ==
  (lop = "mask_index") => ((\A j \in Comps : mask[j] <=> (j = arg)) /\ flag)

\* C14 witness: LabelMask(i) for an index other than 0.
C14_Witness ==
  /\ lop = "mask_index"
  /\ arg > 0
  /\ mask[arg] /\ ~mask[0]

\* C15: for component values d and weights w in 0..INFTY the sum d + w stays
\* within int, so INFTY plus a weight never compares smaller than a finite
\* distance.
C15_NoOverflowUpToInfty ==
  (lop = "plus" /\ arg >= 0) =>
     /\ ~ovf
     /\ \A i \in Comps :
          /\ sum[i] >= a0[i]
          /\ sum[i] <= INT_MAX
          /\ (a0[i] = INFTY) => \A d \in 0 .. MaxDist : ~(sum[i] < d)

\* C15 witness: INFTY + INFTY, the largest sum, is INT_MAX - 1.
C15_Witness ==
  /\ lop = "plus"
  /\ arg = INFTY
  /\ \E i \in Comps : a0[i] = INFTY /\ sum[i] = INT_MAX - 1

\* C13: after setVertex(u, mask) then setEdge(e, mask), vertex(i) = u and
\* edge(i) = e for every component marked in mask, and both keep their
\* previous values for every unmarked component; setVertex never changes a
\* parent edge and setEdge never changes a parent vertex.
C13_ParentUpdatesOnlyMarked ==
  /\ (parOp.name = "setEdge" /\ parPrev.name = "setVertex"
        /\ parOp.mask = parPrev.mask) =>
       \A i \in Comps :
         IF parOp.mask[i]
           THEN vertices[i] = parPrev.id /\ edges[i] = parOp.id
           ELSE vertices[i] = vertices1[i] /\ edges[i] = edges1[i]
  /\ (parOp.name = "setVertex") => (edges = edges0)
  /\ (parOp.name = "setEdge") => (vertices = vertices0)

\* C13 witness: setVertex then setEdge with a mask that marks one component
\* and not another, with ids that differ from the values held before.
C13_Witness ==
  /\ parOp.name = "setEdge"
  /\ parPrev.name = "setVertex"
  /\ parOp.mask = parPrev.mask
  /\ \E i \in Comps, j \in Comps :
       /\ parOp.mask[i] /\ ~parOp.mask[j]
       /\ vertices1[i] # parPrev.id /\ edges1[i] # parOp.id
       /\ vertices[j] # parPrev.id /\ edges[j] # parOp.id

C17_IndexLazyClearFrame ==
  [][(op'.name = "index") =>
       LET v == op'.v
       IN /\ IF timestamps[v] # clock
               THEN /\ distanceLabels'[v] = Broadcast(INFTY)
                    /\ timestamps'[v] = clock
               ELSE /\ distanceLabels'[v] = distanceLabels[v]
                    /\ timestamps'[v] = timestamps[v]
          /\ clock' = clock
          /\ \A u \in Vertices \ {v} :
               /\ distanceLabels'[u] = distanceLabels[u]
               /\ timestamps'[u] = timestamps[u]]_vars

\* C17 witness: operator[](v) has just cleared and stamped v while another
\* vertex still carries an older stamp and a finite label.
C17_Witness ==
  /\ op.name = "index"
  /\ clock > 1
  /\ timestamps[op.v] = clock
  /\ distanceLabels[op.v] = Broadcast(INFTY)
  /\ \E u \in Vertices \ {op.v} :
       /\ timestamps[u] # clock
       /\ distanceLabels[u] # Broadcast(INFTY)

\* C18: an init() call that does not overflow the clock increases the clock
\* by exactly one and leaves every timestamp and stored label unchanged; the
\* clock is 0 at construction.
C18_InitOnlyAdvancesClock ==
  /\ Init => (clock = 0)
  /\ [][(op'.name = "init" /\ clock # MaxClock) =>
          /\ clock' = clock + 1
          /\ timestamps' = timestamps
          /\ distanceLabels' = distanceLabels]_vars

\* C19: every vertex satisfies timestamps[v] <= clock in every reachable
\* state, so the assertion timestamps[v] < clock in operator[] never fails.
C19_StampsNeverAheadOfClock ==
  \A v \in Vertices : timestamps[v] <= clock

\* C20: ConvertGraph accepts every format its usage text lists: no source
\* format in {binary, default, dimacs, visum, xatf} and no destination format
\* in {binary, default, dimacs} ends in the "unrecognized input / output file
\* format" error and EXIT_FAILURE.
C20_ListedFormatsAccepted ==
  /\ (cgArgs.s \in UsageSourceFormats) =>
        ~(cgMsg = "unrecognized input file format" /\ cgExit = "EXIT_FAILURE")
  /\ (cgArgs.d \in UsageDestinationFormats) =>
        ~(cgMsg = "unrecognized output file format" /\ cgExit = "EXIT_FAILURE")

====
